---- MODULE Spec2Model ----
(***************************************************************************)
(* A model of the GBWT construction core: DynamicRecord and its LF         *)
(* queries, RecordArray, CompressedRecord and DASamples (support.cpp), the  *)
(* DynamicGBWT header arithmetic and the insertion of paths                 *)
(* (dynamic_gbwt.h), the sentinels and ranges of utils.h.                   *)
(*                                                                          *)
(* Sequences are 1-based here and 0-based in the source: out-rank r of the  *)
(* source is outgoing[r + 1], run k of the source is body[k + 1].  A pair   *)
(* std::pair<A, B> is a 2-tuple <<first, second>>.                          *)
(*                                                                          *)
(* Word widths.  size_type is 64 bits and, with GBWT_SAVE_MEMORY, the       *)
(* members of edge_type, run_type and sample_type are 32 bits.  The model   *)
(* keeps the two widths and their ratio (SizeBits = 2 * ShortBits) with     *)
(* ShortBits a parameter of the model, since the model checker's integers   *)
(* are 32 bits wide.                                                        *)
(***************************************************************************)
EXTENDS Integers, Sequences, FiniteSets, TLC

VARIABLES
    header,     \* DynamicGBWT::header (size, sequences, alphabet_size, offset)
    bwt,        \* DynamicGBWT::bwt, or the vector a static structure is built from
    inserted,   \* history: the paths inserted so far, in insertion order
    rec,        \* the DynamicRecord a record-level call is made on
    das,        \* the DASamples built from bwt
    array,      \* the RecordArray built from bwt
    op,         \* the last call made
    args,       \* its arguments
    res         \* its return value

vars == <<header, bwt, inserted, rec, das, array, op, args, res>>

----------------------------------------------------------------------------
(* Bounds of the model. *)

ShortBits == 8      \* width of short_type in the model
MaxNode == 2        \* node ids of the record-level model are 0..MaxNode
MaxSize == 3        \* a record under test has at most MaxSize positions
MaxOffset == 1      \* outgoing[r].second is drawn from 0..MaxOffset
MaxSigma == 5       \* the header-level model has alphabet_size in 0..MaxSigma
MaxRecords == 2     \* a vector DASamples is built from has at most MaxRecords records
MaxSampled == 2     \* and each of its records has at most MaxSampled positions
MaxPaths == 2       \* an index holds at most MaxPaths paths
MaxPathLen == 2     \* of at most MaxPathLen nodes each

----------------------------------------------------------------------------
(* utils.h *)

RECURSIVE Pow2(_)
Pow2(n) == IF n = 0 THEN 1 ELSE 2 * Pow2(n - 1)

SizeBits == 2 * ShortBits
ShortMod == Pow2(ShortBits)
SizeMod == Pow2(SizeBits)

ToShort(x) == x % ShortMod
ToSize(x) == x % SizeMod

ENDMARKER == 0

invalid_sequence == SizeMod - 1

invalid_offset == SizeMod - 1

\* edge_type(ENDMARKER, invalid_offset()): the pair's members are short_type.
invalid_edge == <<ToShort(ENDMARKER), ToShort(invalid_offset)>>

empty_range == <<1, 0>>

RangeEmpty(range) == ToSize(range[1] + 1) > ToSize(range[2] + 1)

RangeLength(range) == ToSize(range[2] + 1 - range[1])

----------------------------------------------------------------------------
(* DynamicRecord: accessors *)

EmptyRecord ==
    [body_size |-> 0, incoming |-> <<>>, outgoing |-> <<>>, body |-> <<>>, ids |-> <<>>]

size(r) == r.body_size
runs(r) == Len(r.body)
indegree(r) == Len(r.incoming)
outdegree(r) == Len(r.outgoing)
samples(r) == Len(r.ids)
successor(r, outrank) == r.outgoing[outrank + 1][1]
offset(r, outrank) == r.outgoing[outrank + 1][2]

RECURSIVE edgeToScan(_, _, _)
edgeToScan(r, to, outrank) ==
    IF outrank >= outdegree(r) THEN outdegree(r)
    ELSE IF successor(r, outrank) = to THEN outrank
    ELSE edgeToScan(r, to, outrank + 1)

edgeTo(r, to) == edgeToScan(r, to, 0)

----------------------------------------------------------------------------
(* DynamicRecord::LF(size_type i) *)

\* The loop over the body: result is the local copy of outgoing, and the
\* value is <<result, last_edge, offset>> when the loop ends or breaks.
RECURSIVE LFLoop(_, _, _, _, _, _)
LFLoop(body, k, result, last_edge, off, i) ==
    IF k > Len(body) THEN <<result, last_edge, off>>
    ELSE LET run == body[k]
             result2 == [result EXCEPT ![run[1] + 1][2] = ToShort(@ + run[2])]
             off2 == ToSize(off + run[2])
         IN  IF off2 > i THEN <<result2, run[1], off2>>
             ELSE LFLoop(body, k + 1, result2, run[1], off2, i)

\* LF(i) without the subtraction of the last run's overshoot; C2 and C1
\* tell it from LF.
LF_KeepOvershoot(r, i) ==
    IF i >= size(r) THEN invalid_edge
    ELSE LET end == LFLoop(r.body, 1, r.outgoing, 0, 0, i)
         IN  <<end[1][end[2] + 1][1], end[1][end[2] + 1][2]>>

\* LF(i) that answers for the last position when i is past the end; C5 tells
\* it from LF.
LF_Clamped(r, i) ==
    IF size(r) = 0 THEN invalid_edge
    ELSE LET j == IF i >= size(r) THEN size(r) - 1 ELSE i
             end == LFLoop(r.body, 1, r.outgoing, 0, 0, j)
         IN  <<end[1][end[2] + 1][1],
               ToShort(end[1][end[2] + 1][2] - (end[3] - j))>>

LF(r, i) ==
    IF i >= size(r) THEN invalid_edge
    ELSE LET end == LFLoop(r.body, 1, r.outgoing, 0, 0, i)
             result == end[1]
             last_edge == end[2]
             off == end[3]
         IN  <<result[last_edge + 1][1],
               ToShort(result[last_edge + 1][2] - (off - i))>>

----------------------------------------------------------------------------
(* DynamicRecord::LF(size_type i, node_type to) *)

RECURSIVE LFtoLoop(_, _, _, _, _, _)
LFtoLoop(body, k, outrank, result, off, i) ==
    IF k > Len(body) THEN result
    ELSE LET run == body[k]
             result2 == IF run[1] = outrank THEN ToSize(result + run[2]) ELSE result
             off2 == ToSize(off + run[2])
         IN  IF off2 >= i
             THEN (IF run[1] = outrank THEN ToSize(result2 - (off2 - i)) ELSE result2)
             ELSE LFtoLoop(body, k + 1, outrank, result2, off2, i)

\* LF(i, to) that counts from zero and not from the edge's offset; C4 tells
\* it from LF(i, to).
LFto_FromZero(r, i, to) ==
    LET outrank == edgeTo(r, to)
    IN  IF outrank >= outdegree(r) THEN invalid_offset
        ELSE LFtoLoop(r.body, 1, outrank, 0, 0, i)

LFto(r, i, to) ==
    LET outrank == edgeTo(r, to)
    IN  IF outrank >= outdegree(r) THEN invalid_offset
        ELSE LFtoLoop(r.body, 1, outrank, offset(r, outrank), 0, i)

----------------------------------------------------------------------------
(* DynamicRecord::LF(range_type range, node_type to) *)

\* One of the two while loops: from the state <<k, result, offset>> with the
\* iterator on run k, advance while offset < bound.  When ++iter reaches
\* body.end() the loop breaks and `run` stays the last run read.
RECURSIVE LFrangeLoop(_, _, _, _, _, _)
LFrangeLoop(body, k, outrank, result, off, bound) ==
    IF k <= Len(body) /\ off < bound
    THEN IF k + 1 > Len(body) THEN <<k + 1, k, result, off>>
         ELSE LET run == body[k + 1]
              IN  LFrangeLoop(body, k + 1, outrank,
                              IF run[1] = outrank THEN ToSize(result + run[2]) ELSE result,
                              ToSize(off + run[2]), bound)
    ELSE <<k, k, result, off>>

\* The value is <<iter, index of run, result, offset>>: iter is the iterator's
\* place (Len(body) + 1 is body.end()), and run the last run read.
LFrangeFrom(body, st, outrank, bound) ==
    IF st[1] > Len(body) THEN st
    ELSE LFrangeLoop(body, st[1], outrank, st[3], st[4], bound)

LFrange(r, range, to) ==
    IF RangeEmpty(range) THEN empty_range
    ELSE LET outrank == edgeTo(r, to)
         IN  IF outrank >= outdegree(r) THEN empty_range
             ELSE LET body == r.body
                      run1 == body[1]
                      st0 == <<1, 1,
                               ToSize(offset(r, outrank)
                                      + (IF run1[1] = outrank THEN run1[2] ELSE 0)),
                               run1[2]>>
                      st1 == LFrangeFrom(body, st0, outrank, range[1])
                      first == ToSize(st1[3] - (IF body[st1[2]][1] = outrank
                                                THEN st1[4] - range[1] ELSE 0))
                      st2 == LFrangeFrom(body, st1, outrank, range[2])
                      second == ToSize(st2[3] - (IF body[st2[2]][1] = outrank
                                                 THEN st2[4] - range[2] ELSE 0))
                  IN  <<first, second>>

----------------------------------------------------------------------------
(* DynamicRecord::operator[](size_type i) *)

RECURSIVE AtLoop(_, _, _, _)
AtLoop(r, k, off, i) ==
    IF k > Len(r.body) THEN ENDMARKER
    ELSE LET off2 == ToSize(off + r.body[k][2])
         IN  IF off2 > i THEN successor(r, r.body[k][1])
             ELSE AtLoop(r, k + 1, off2, i)

At(r, i) == IF i >= size(r) THEN ENDMARKER ELSE AtLoop(r, 1, 0, i)

----------------------------------------------------------------------------
(* The records the record-level calls are made on.  A record the program    *)
(* builds has pairwise distinct successors, a body of runs of positive      *)
(* length in which no two neighbours share an out-rank, every out-rank of   *)
(* outgoing used by some run, and body_size the sum of the run lengths.     *)

RECURSIVE SumRuns(_)
SumRuns(body) == IF body = <<>> THEN 0 ELSE body[1][2] + SumRuns(Tail(body))

\* Run-length encoding of a sequence of out-ranks, merging equal neighbours.
RECURSIVE Encode(_)
Encode(ranks) ==
    IF ranks = <<>> THEN <<>>
    ELSE LET rest == Encode(Tail(ranks))
         IN  IF rest /= <<>> /\ rest[1][1] = ranks[1]
             THEN <<(<<ranks[1], rest[1][2] + 1>>)>> \o Tail(rest)
             ELSE <<(<<ranks[1], 1>>)>> \o rest

Range(f) == {f[x] : x \in DOMAIN f}

Nodes == 0..MaxNode

\* Sequences of d pairwise distinct successors, each with an offset.
OutgoingSets(d) ==
    {out \in [1..d -> Nodes \X {0, MaxOffset}] :
        \A a, b \in 1..d : a /= b => out[a][1] /= out[b][1]}

\* Sequences of n out-ranks below d in which every out-rank occurs.
RankStrings(d, n) == {w \in [1..n -> 0..(d - 1)] : Range(w) = 0..(d - 1)}

\* The record with the outgoing edges out whose body spells the out-ranks w.
RecordOf(out, w) ==
    [body_size |-> Len(w), incoming |-> <<>>, outgoing |-> out, body |-> Encode(w),
     ids |-> <<>>]

\* Arguments of the calls: positions up to past the end, and the largest value.
Positions == (0..(MaxSize + 1)) \cup {SizeMod - 1}

Targets == Nodes

\* The ranges [sp, ep] with sp <= ep, and the empty range.
Ranges == {range \in Positions \X Positions : range[1] <= range[2]} \cup {empty_range}

----------------------------------------------------------------------------
(* The record-level state machine: a record, and the const queries on it.   *)

Idle == [size |-> 0, sequences |-> 0, alphabet_size |-> 0, offset |-> 0]

\* RecordArray::RecordArray(): no records, no data.
EmptyArray == [records |-> 0, index |-> <<>>, data |-> <<>>]

InitRecord ==
    /\ \E d \in 0..MaxNode, n \in 0..MaxSize :
         \E out \in OutgoingSets(d), w \in RankStrings(d, n) : rec = RecordOf(out, w)
    /\ header = Idle
    /\ bwt = <<>>
    /\ inserted = <<>>
    /\ das = <<>>
    /\ array = EmptyArray
    /\ op = "none"
    /\ args = <<>>
    /\ res = <<>>

\* A call is made when no result is pending; Return hands the result back
\* and leaves the caller ready for the next call.
Ready == op = "none"

CallLF(i) ==
    /\ Ready
    /\ op' = "LF"
    /\ args' = <<i>>
    /\ res' = LF(rec, i)
    /\ UNCHANGED <<header, bwt, inserted, rec, das, array>>

CallLFto(i, to) ==
    /\ Ready
    /\ op' = "LFto"
    /\ args' = <<i, to>>
    /\ res' = LFto(rec, i, to)
    /\ UNCHANGED <<header, bwt, inserted, rec, das, array>>

CallLFrange(range, to) ==
    /\ Ready
    /\ op' = "LFrange"
    /\ args' = <<range, to>>
    /\ res' = LFrange(rec, range, to)
    /\ UNCHANGED <<header, bwt, inserted, rec, das, array>>

CallAt(i) ==
    /\ Ready
    /\ op' = "at"
    /\ args' = <<i>>
    /\ res' = At(rec, i)
    /\ UNCHANGED <<header, bwt, inserted, rec, das, array>>

Return ==
    /\ ~Ready
    /\ op' = "none"
    /\ args' = <<>>
    /\ res' = <<>>
    /\ UNCHANGED <<header, bwt, inserted, rec, das, array>>

NextRecord ==
    \/ \E i \in Positions : CallLF(i)
    \/ \E i \in Positions, to \in Targets : CallLFto(i, to)
    \/ \E range \in Ranges, to \in Targets : CallLFrange(range, to)
    \/ \E i \in Positions : CallAt(i)
    \/ Return

SpecRecord == InitRecord /\ [][NextRecord]_vars

----------------------------------------------------------------------------
(* DynamicGBWT: the header arithmetic of dynamic_gbwt.h *)

sigma(h) == h.alphabet_size

effective(h) == ToSize(h.alphabet_size - h.offset)

contains(h, node) == (node < sigma(h) /\ node > h.offset) \/ node = 0

toComp(h, node) == IF node = 0 THEN node ELSE ToSize(node - h.offset)

\* The headers of an index: the empty index has alphabet_size = offset = 0,
\* and once a path is inserted the alphabet holds a node above the offset.
Headers ==
    {[size |-> 0, sequences |-> 0, alphabet_size |-> s, offset |-> o] :
        s \in 0..MaxSigma, o \in 0..MaxSigma} 

ReachableHeaders == {h \in Headers : h.offset < h.alphabet_size \/ h = Idle}

NodeIds == 0..(MaxSigma + 1)

InitHeader ==
    /\ header \in ReachableHeaders
    /\ rec = EmptyRecord
    /\ bwt = <<>>
    /\ inserted = <<>>
    /\ das = <<>>
    /\ array = EmptyArray
    /\ op = "none"
    /\ args = <<>>
    /\ res = <<>>

CallContains(node) ==
    /\ Ready
    /\ op' = "contains"
    /\ args' = <<node>>
    /\ res' = contains(header, node)
    /\ UNCHANGED <<header, bwt, inserted, rec, das, array>>

CallToComp(node) ==
    /\ Ready
    /\ op' = "toComp"
    /\ args' = <<node>>
    /\ res' = toComp(header, node)
    /\ UNCHANGED <<header, bwt, inserted, rec, das, array>>

NextHeader ==
    \/ \E node \in NodeIds : CallContains(node)
    \/ \E node \in NodeIds : CallToComp(node)
    \/ Return

SpecHeader == InitHeader /\ [][NextHeader]_vars

----------------------------------------------------------------------------
(* DynamicRecord: the mutators of support.cpp *)

\* sequentialSort of a vector of pairs: std::sort by (first, second).
PairLess(a, b) == a[1] < b[1] \/ (a[1] = b[1] /\ a[2] < b[2])

RECURSIVE SortPairs(_)
SortPairs(pairs) ==
    IF Len(pairs) <= 1 THEN pairs
    ELSE LET k == CHOOSE k \in 1..Len(pairs) :
                    \A j \in 1..Len(pairs) : ~PairLess(pairs[j], pairs[k])
         IN  <<pairs[k]>> \o
             SortPairs(SubSeq(pairs, 1, k - 1) \o SubSeq(pairs, k + 1, Len(pairs)))

addIncoming(r, inedge) == [r EXCEPT !.incoming = SortPairs(Append(@, inedge))]

\* An increment that adds a new incoming edge on every call; C18 tells it
\* from increment.
increment_AddAlways(r, from) == addIncoming(r, <<from, 1>>)

increment(r, from) ==
    IF \E k \in 1..indegree(r) : r.incoming[k][1] = from
    THEN LET k == CHOOSE k \in 1..indegree(r) :
                    /\ r.incoming[k][1] = from
                    /\ \A j \in 1..(k - 1) : r.incoming[j][1] /= from
         IN  [r EXCEPT !.incoming[k][2] = ToShort(@ + 1)]
    ELSE addIncoming(r, <<from, 1>>)

OutgoingSorted(r) ==
    \A k \in 1..(outdegree(r) - 1) : ~(r.outgoing[k + 1][1] < r.outgoing[k][1])

\* A recode that returns at once; C15 tells it from recode.
recode_Keep(r) == r

\* A recode that sorts outgoing and leaves the out-ranks of the body as they
\* are; C14 tells it from recode.
recode_SortOnly(r) ==
    IF size(r) = 0 \/ OutgoingSorted(r) THEN r
    ELSE [r EXCEPT !.outgoing = SortPairs(@)]

recode(r) ==
    IF size(r) = 0 \/ OutgoingSorted(r) THEN r
    ELSE LET named == [k \in 1..Len(r.body) |->
                          <<successor(r, r.body[k][1]), r.body[k][2]>>]
             sorted == [r EXCEPT !.outgoing = SortPairs(@)]
         IN  [sorted EXCEPT !.body =
                 [k \in 1..Len(named) |-> <<edgeTo(sorted, named[k][1]), named[k][2]>>]]

\* increment(from) on a record that starts empty; args keeps the
\* predecessors of the calls made so far, at most MaxSize + 1 of them.
InitIncrement ==
    /\ rec = EmptyRecord
    /\ bwt = <<>>
    /\ das = <<>>
    /\ array = EmptyArray
    /\ header = Idle
    /\ inserted = <<>>
    /\ op = "none"
    /\ args = <<>>
    /\ res = <<>>

Increment(from) ==
    /\ Len(args) <= MaxSize
    /\ rec' = increment(rec, from)
    /\ op' = "increment"
    /\ args' = Append(args, from)
    /\ UNCHANGED <<header, bwt, inserted, das, array, res>>

NextIncrement == \E from \in Nodes : Increment(from)

SpecIncrement == InitIncrement /\ [][NextIncrement]_vars

\* The records recode() is called on: the records of the record-level calls,
\* outgoing in any order, with or without an incoming edge and a sample.
\* args keeps the record before each call.
InitRecode ==
    /\ \E d \in 0..MaxNode, n \in 0..MaxSize, full \in BOOLEAN :
         \E out \in OutgoingSets(d), w \in RankStrings(d, n) :
            rec = [RecordOf(out, w) EXCEPT
                      !.incoming = IF full /\ n > 0 THEN <<(<<1, n>>)>> ELSE <<>>,
                      !.ids = IF full /\ n > 0 THEN <<(<<0, 1>>)>> ELSE <<>>]
    /\ bwt = <<>>
    /\ das = <<>>
    /\ array = EmptyArray
    /\ header = Idle
    /\ inserted = <<>>
    /\ op = "none"
    /\ args = <<>>
    /\ res = <<>>

\* recode(), called once and then once more.
Recode ==
    /\ Len(args) < 2
    /\ rec' = recode(rec)
    /\ op' = "recode"
    /\ args' = Append(args, rec)
    /\ UNCHANGED <<header, bwt, inserted, das, array, res>>

NextRecode == Recode

SpecRecode == InitRecode /\ [][NextRecode]_vars

----------------------------------------------------------------------------
(* Range::empty and Range::length, called on ranges of small and of the     *)
(* largest values of size_type.                                             *)

\* Range::empty(size_type sp, size_type ep)
RangeEmptyOf(sp, ep) == ToSize(sp + 1) > ToSize(ep + 1)

Ends == (0..(MaxSize + 1)) \cup {SizeMod - 2, SizeMod - 1}

InitRange ==
    /\ rec = EmptyRecord
    /\ bwt = <<>>
    /\ das = <<>>
    /\ array = EmptyArray
    /\ header = Idle
    /\ inserted = <<>>
    /\ op = "none"
    /\ args = <<>>
    /\ res = <<>>

CallEmpty(range) ==
    /\ Ready
    /\ op' = "Range::empty"
    /\ args' = <<range>>
    /\ res' = RangeEmpty(range)
    /\ UNCHANGED <<header, bwt, inserted, rec, das, array>>

CallEmptyOf(sp, ep) ==
    /\ Ready
    /\ op' = "Range::empty(sp, ep)"
    /\ args' = <<sp, ep>>
    /\ res' = RangeEmptyOf(sp, ep)
    /\ UNCHANGED <<header, bwt, inserted, rec, das, array>>

CallLength(range) ==
    /\ Ready
    /\ op' = "Range::length"
    /\ args' = <<range>>
    /\ res' = RangeLength(range)
    /\ UNCHANGED <<header, bwt, inserted, rec, das, array>>

NextRange ==
    \/ \E range \in Ends \X Ends : CallEmpty(range)
    \/ \E sp \in Ends, ep \in Ends : CallEmptyOf(sp, ep)
    \/ \E range \in Ends \X Ends : CallLength(range)
    \/ Return

SpecRange == InitRange /\ [][NextRange]_vars

----------------------------------------------------------------------------
(* DynamicGBWT: the record accessors and queries of dynamic_gbwt.h.  An     *)
(* index is the pair of its header and its vector of records.               *)

EmptyIndex == [header |-> Idle, bwt |-> <<>>]

record(x, node) == x.bwt[toComp(x.header, node) + 1]

count(x, node) == size(record(x, node))

sequences(x) == x.header.sequences

\* size() read from the wrong header field; C9 tells it from size().
IndexSize_Sequences(x) == x.header.sequences

IndexSize(x) == x.header.size

IndexLF_KeepOvershoot(x, from, i) == LF_KeepOvershoot(record(x, from), i)

IndexLF(x, from, i) == LF(record(x, from), i)

----------------------------------------------------------------------------
(* DynamicGBWT::insert, insertBatch, resize and merge.                      *)

SAMPLE_INTERVAL == 1024

\* The node of the record at index comp of bwt.
toNode(h, comp) == IF comp = 0 THEN 0 ELSE comp + h.offset

\* resize(new_offset, new_sigma): the offset is lowered and the alphabet
\* raised to hold the new values, and the records keep their nodes.
resize(x, new_offset, new_sigma) ==
    LET h == x.header
        off == IF (sigma(h) > 1 /\ new_offset > h.offset) \/ new_sigma <= 1
               THEN h.offset ELSE new_offset
        sig == IF sigma(h) > new_sigma THEN sigma(h) ELSE new_sigma
        h2 == [h EXCEPT !.offset = off, !.alphabet_size = sig]
    IN  [header |-> h2,
         bwt |-> [c \in 1..(sig - off) |->
                    IF contains(h, toNode(h2, c - 1)) /\ effective(h) > 0
                    THEN record(x, toNode(h2, c - 1))
                    ELSE EmptyRecord]]

\* The paths of a text: the node sequences its endmarkers end.
RECURSIVE SplitPaths(_)
SplitPaths(text) ==
    IF text = <<>> THEN <<>>
    ELSE LET k == CHOOSE k \in 1..Len(text) :
                    text[k] = ENDMARKER /\ \A j \in 1..(k - 1) : text[j] /= ENDMARKER
         IN  <<SubSeq(text, 1, k - 1)>> \o SplitPaths(SubSeq(text, k + 1, Len(text)))

\* The run-length encoded body with out-rank `outrank` spliced in at
\* position p, merging with the neighbouring runs of the same out-rank.
RECURSIVE Unroll(_)
Unroll(body) ==
    IF body = <<>> THEN <<>>
    ELSE [j \in 1..body[1][2] |-> body[1][1]] \o Unroll(Tail(body))

Splice(body, p, outrank) ==
    LET ranks == Unroll(body)
    IN  Encode(SubSeq(ranks, 1, p) \o <<outrank>> \o SubSeq(ranks, p + 1, Len(ranks)))

\* The samples after an insertion at position p: those at or after p move
\* up by one, and the new sample, if one is taken, goes in at p.
AddSample(ids, p, take, id) ==
    LET before == SelectSeq(ids, LAMBDA sample : sample[1] < p)
        after == SelectSeq(ids, LAMBDA sample : sample[1] >= p)
    IN  before \o (IF take THEN <<(<<p, id>>)>> ELSE <<>>)
               \o [k \in 1..Len(after) |-> <<after[k][1] + 1, after[k][2]>>]

\* The record with successor `to` inserted at body position p.
PutSuccessor(r, p, to, take, id) ==
    LET known == edgeTo(r, to) < outdegree(r)
        outrank == edgeTo(r, to)
    IN  [r EXCEPT !.body_size = ToShort(@ + 1),
                  !.outgoing = IF known THEN @ ELSE Append(@, <<to, 0>>),
                  !.body = Splice(@, p, outrank),
                  !.ids = AddSample(@, p, take, id)]

\* The number of visits to the record's node that come from predecessors
\* below `from`: where the visits from `from` start in the record.
RECURSIVE CountBelow(_, _)
CountBelow(incoming, from) ==
    IF incoming = <<>> THEN 0
    ELSE (IF incoming[1][1] < from THEN incoming[1][2] ELSE 0)
         + CountBelow(Tail(incoming), from)

\* One path inserted from its step k on: the path is at position p of the
\* record of cur, and its next node goes in there.
RECURSIVE InsertWalk(_, _, _, _, _, _)
InsertWalk(x, path, k, cur, p, id) ==
    LET to == IF k <= Len(path) THEN path[k] ELSE ENDMARKER
        ci == toComp(x.header, cur) + 1
        ti == toComp(x.header, to) + 1
        put == PutSuccessor(x.bwt[ci], p, to, (k - 1) % SAMPLE_INTERVAL = 0, id)
        b1 == [x.bwt EXCEPT ![ci] = put]
        b2 == [b1 EXCEPT ![ti] = increment(@, cur)]
        q == CountBelow(b2[ti].incoming, cur)
             + LFtoLoop(put.body, 1, edgeTo(put, to), 0, 0, p)
    IN  IF to = ENDMARKER THEN [x EXCEPT !.bwt = b2]
        ELSE InsertWalk([x EXCEPT !.bwt = b2], path, k + 1, to, q, id)

\* The paths of a batch inserted in the order of their ids; path j starts
\* at the end of the endmarker's record.
RECURSIVE InsertPaths(_, _, _)
InsertPaths(x, paths, id) ==
    IF paths = <<>> THEN x
    ELSE InsertPaths(InsertWalk(x, paths[1], 1, ENDMARKER, id, id), Tail(paths), id + 1)

\* The outgoing offsets of every record, from the incoming counts.
RebuildOffsets(x) ==
    [x EXCEPT !.bwt =
        [c \in 1..Len(x.bwt) |->
            [x.bwt[c] EXCEPT !.outgoing =
                [k \in 1..Len(@) |->
                    <<@[k][1],
                      CountBelow(record(x, @[k][1]).incoming, toNode(x.header, c - 1))>>]]]]

RecodeAll(x) == [x EXCEPT !.bwt = [c \in 1..Len(x.bwt) |-> recode(x.bwt[c])]]

\* insertBatch(text, start_id): the new paths get the ids from sequences()
\* on, and the header is updated at the end.
insertBatch(x, text) ==
    LET paths == SplitPaths(text)
        done == RecodeAll(RebuildOffsets(InsertPaths(x, paths, sequences(x))))
    IN  [done EXCEPT !.header.size = ToSize(@ + Len(text)),
                     !.header.sequences = ToSize(@ + Len(paths))]

MinNode(text) ==
    LET nodes == {text[k] : k \in 1..Len(text)} \ {ENDMARKER}
    IN  CHOOSE n \in nodes : \A m \in nodes : n <= m

MaxNodeOf(text) ==
    LET nodes == {text[k] : k \in 1..Len(text)}
    IN  CHOOSE n \in nodes : \A m \in nodes : m <= n

\* insert(text): the text is a concatenation of endmarker-ended paths.
insert(x, text) ==
    IF text = <<>> THEN x
    ELSE insertBatch(resize(x, MinNode(text) - 1, MaxNodeOf(text) + 1), text)

\* Following LF from (ENDMARKER, j) until the endmarker is reached again:
\* the nodes passed, at most `fuel` of them.
RECURSIVE Follow(_, _, _)
Follow(x, position, fuel) ==
    IF position[1] = ENDMARKER \/ fuel = 0 THEN <<>>
    ELSE <<position[1]>> \o Follow(x, IndexLF(x, position[1], position[2]), fuel - 1)

extract(x, j) == Follow(x, IndexLF(x, ENDMARKER, j), IndexSize(x))

\* The text of a sequence of paths.
RECURSIVE TextOf(_)
TextOf(paths) ==
    IF paths = <<>> THEN <<>> ELSE paths[1] \o <<ENDMARKER>> \o TextOf(Tail(paths))

\* merge(source, batch_size): the paths of source, in the order of their
\* ids, inserted from path `from` on in batches of batch_size paths; batch
\* size 0 inserts them all at once.
RECURSIVE MergeFrom(_, _, _, _)
MergeFrom(x, source, from, batch_size) ==
    IF from >= sequences(source) THEN x
    ELSE LET limit == IF batch_size = 0 \/ from + batch_size > sequences(source)
                      THEN sequences(source) ELSE from + batch_size
             batch == [j \in 1..(limit - from) |-> extract(source, from + j - 1)]
         IN  MergeFrom(insert(x, TextOf(batch)), source, limit, batch_size)

merge(x, source, batch_size) == MergeFrom(x, source, 0, batch_size)

\* The paths and texts of the model.
PathNodes == {2, 3}

PathSet == UNION {[1..n -> PathNodes] : n \in 1..MaxPathLen}

\* The texts of at most n paths.
Texts(n) == {TextOf(paths) : paths \in UNION {[1..k -> PathSet] : k \in 1..n}}

Init ==
    /\ header = Idle
    /\ bwt = <<>>
    /\ inserted = <<>>
    /\ rec = EmptyRecord
    /\ das = <<>>
    /\ array = EmptyArray
    /\ op = "none"
    /\ args = <<>>
    /\ res = <<>>

Index == [header |-> header, bwt |-> bwt]

Insert(text) ==
    /\ Ready
    /\ LET done == insert(Index, text)
       IN  /\ header' = done.header
           /\ bwt' = done.bwt
    /\ inserted' = inserted \o SplitPaths(text)
    /\ op' = "insert"
    /\ args' = <<>>
    /\ res' = <<>>
    /\ UNCHANGED <<rec, das, array>>

Merge(text, batch_size) ==
    /\ Ready
    /\ LET source == insert(EmptyIndex, text)
           merged == merge(Index, source, batch_size)
       IN  /\ header' = merged.header
           /\ bwt' = merged.bwt
    /\ inserted' = inserted \o SplitPaths(text)
    /\ op' = "merge"
    /\ args' = <<batch_size, Len(SplitPaths(text))>>
    /\ res' = <<>>
    /\ UNCHANGED <<rec, das, array>>

\* The index is grown up to MaxPaths paths.
Next ==
    \/ \E text \in Texts(MaxPaths - Len(inserted)) : Insert(text)
    \/ \E text \in Texts(MaxPaths - Len(inserted)), batch_size \in 0..MaxPaths :
            Merge(text, batch_size)
    \/ Return

Spec == Init /\ [][Next]_vars

----------------------------------------------------------------------------
(* DASamples.  An sdsl bit vector (bit_vector, sd_vector) is a sequence of  *)
(* bits, bit i of the source being b[i + 1]; rank(i) counts the ones in     *)
(* [0, i) and select(k) is the place of the k-th one, k >= 1.               *)

BitsOf(n, ones) == [j \in 1..n |-> IF (j - 1) \in ones THEN 1 ELSE 0]

Rank1(b, i) == Cardinality({j \in 1..Len(b) : j <= i /\ b[j] = 1})

Select1(b, k) == CHOOSE i \in 0..(Len(b) - 1) : b[i + 1] = 1 /\ Rank1(b, i) = k - 1

\* sdsl::bits::hi: the place of the highest set bit, 0 for 0.
RECURSIVE BitsHi(_)
BitsHi(val) == IF val <= 1 THEN 0 ELSE 1 + BitsHi(val \div 2)

\* The place of the highest bit taken for the length; C17 tells it from
\* bit_length.
bit_length_Hi(val) == BitsHi(val)

bit_length(val) == BitsHi(val) + 1

EmptyDAS ==
    [sampled_records |-> <<>>, bwt_ranges |-> <<>>, sampled_offsets |-> <<>>,
     array |-> <<>>, width |-> 0]

\* The first pass: <<records, offsets, sample_count>> over bwt[1..c].
RECURSIVE DASCount(_, _)
DASCount(v, c) ==
    IF c = 0 THEN <<0, 0, 0>>
    ELSE LET prev == DASCount(v, c - 1)
         IN  IF samples(v[c]) > 0
             THEN <<prev[1] + 1, prev[2] + size(v[c]), prev[3] + samples(v[c])>>
             ELSE prev

\* The second pass over bwt[1..c]: <<bits set in range_builder, bits set in
\* offset_builder, offset, max_sample>>.
RECURSIVE DASMark(_, _)
DASMark(v, c) ==
    IF c = 0 THEN <<{}, {}, 0, 0>>
    ELSE LET prev == DASMark(v, c - 1)
             ids == v[c].ids
             maxId(m) == LET all == {ids[k][2] : k \in 1..Len(ids)} \cup {m}
                         IN  CHOOSE x \in all : \A y \in all : y <= x
         IN  IF samples(v[c]) > 0
             THEN <<prev[1] \cup {prev[3]},
                    prev[2] \cup {prev[3] + ids[k][1] : k \in 1..Len(ids)},
                    prev[3] + size(v[c]),
                    maxId(prev[4])>>
             ELSE prev

\* The third loop: the ids of the sampled records, in order.
RECURSIVE DASIds(_, _)
DASIds(v, c) ==
    IF c = 0 THEN <<>>
    ELSE DASIds(v, c - 1) \o [k \in 1..Len(v[c].ids) |-> v[c].ids[k][2]]

\* DASamples::DASamples(const std::vector<DynamicRecord>& bwt).  An element
\* of array keeps the low `width` bits of the value assigned to it.
DASamplesOf(v) ==
    LET totals == DASCount(v, Len(v))
        mark == DASMark(v, Len(v))
        width == bit_length(mark[4])
        ids == DASIds(v, Len(v))
    IN  [sampled_records |-> [c \in 1..Len(v) |-> IF samples(v[c]) > 0 THEN 1 ELSE 0],
         bwt_ranges |-> BitsOf(totals[2], mark[1]),
         sampled_offsets |-> BitsOf(totals[2], mark[2]),
         array |-> [k \in 1..totals[3] |-> ids[k] % Pow2(width)],
         width |-> width]

\* tryLocate that reads sampled_offsets at the offset alone, without the
\* start of the record's range; C7 tells it from tryLocate.
tryLocate_NoRecordStart(d, rid, off) ==
    IF d.sampled_records[rid + 1] = 0 THEN {invalid_sequence}
    ELSE IF off >= Len(d.sampled_offsets)
         THEN {invalid_sequence} \cup (0..(Pow2(d.width) - 1))
         ELSE IF d.sampled_offsets[off + 1] = 1
              THEN {d.array[Rank1(d.sampled_offsets, off) + 1]}
              ELSE {invalid_sequence}

\* DASamples::tryLocate(size_type record, size_type offset): the values the call can return.
\* sampled_offsets[record_start + offset] past the end of the bit vector is
\* a read outside the structure: the bit read is either value, and so is
\* the element of array read after it.
tryLocate(d, rid, off) ==
    IF d.sampled_records[rid + 1] = 0 THEN {invalid_sequence}
    ELSE LET record_start == Select1(d.bwt_ranges, Rank1(d.sampled_records, rid) + 1)
             at == record_start + off
         IN  IF at >= Len(d.sampled_offsets)
             THEN {invalid_sequence} \cup (0..(Pow2(d.width) - 1))
             ELSE IF d.sampled_offsets[at + 1] = 1
                  THEN {d.array[Rank1(d.sampled_offsets, at) + 1]}
                  ELSE {invalid_sequence}

\* The vectors DASamples is built from.  A record matters here by its size
\* and its samples: the body is one run to the endmarker.  Sample offsets
\* are strictly increasing and below the record's size; the sample ids are
\* pairwise distinct, numbered upwards (flip = 0) or downwards (flip = 1).
SampleRecord(n, ids) ==
    [body_size |-> n, incoming |-> <<>>,
     outgoing |-> IF n = 0 THEN <<>> ELSE <<(<<ENDMARKER, 0>>)>>,
     body |-> IF n = 0 THEN <<>> ELSE <<(<<0, n>>)>>,
     ids |-> ids]

\* The elements of a set of numbers as a strictly increasing sequence.
RECURSIVE SortedSeq(_)
SortedSeq(S) ==
    IF S = {} THEN <<>>
    ELSE LET m == CHOOSE x \in S : \A y \in S : x <= y
         IN  <<m>> \o SortedSeq(S \ {m})

SampleId(flip, c, o) ==
    LET label == (c - 1) * (MaxSampled + 1) + o
    IN  IF flip = 0 THEN label ELSE MaxRecords * (MaxSampled + 1) - label

\* The sample offsets of a record of n positions: any set of positions.
SampleVector(sizes, marks, flip) ==
    [c \in 1..Len(sizes) |->
        SampleRecord(sizes[c],
            LET offs == SortedSeq(marks[c])
            IN  [k \in 1..Len(offs) |-> <<offs[k], SampleId(flip, c, offs[k])>>])]

InitSamples ==
    /\ \E len \in 0..MaxRecords, flip \in 0..1 :
         \E sizes \in [1..len -> 0..MaxSampled] :
           \E marks \in [1..len -> SUBSET (0..(MaxSampled - 1))] :
             /\ \A c \in 1..len : marks[c] \subseteq 0..(sizes[c] - 1)
             /\ bwt = SampleVector(sizes, marks, flip)
    /\ das = EmptyDAS
    /\ array = EmptyArray
    /\ header = Idle
    /\ rec = EmptyRecord
    /\ inserted = <<>>
    /\ op = "none"
    /\ args = <<>>
    /\ res = <<>>

Construct ==
    /\ Ready
    /\ das = EmptyDAS
    /\ das' = DASamplesOf(bwt)
    /\ op' = "DASamples"
    /\ args' = <<>>
    /\ res' = <<>>
    /\ UNCHANGED <<header, bwt, inserted, rec, array>>

CallTryLocate(rid, off) ==
    /\ Ready
    /\ das /= EmptyDAS
    /\ rid < Len(das.sampled_records)
    /\ op' = "tryLocate"
    /\ args' = <<rid, off>>
    /\ res' \in tryLocate(das, rid, off)
    /\ UNCHANGED <<header, bwt, inserted, rec, das, array>>

NextSamples ==
    \/ Construct
    \/ \E rid \in 0..(MaxRecords - 1), off \in 0..(MaxSampled + 1) :
            CallTryLocate(rid, off)
    \/ Return

SpecSamples == InitSamples /\ [][NextSamples]_vars

----------------------------------------------------------------------------
(* ByteCode and Run: the byte codecs of the record encoding.  A byte array  *)
(* is a sequence of numbers in 0..255, byte p of the source being           *)
(* data[p + 1].  A read gives <<value, cursor after the value>>; the reads   *)
(* of the model stay inside the array they are made on.                     *)

\* ByteCode::write: the low 7 bits first, the high bit set on all bytes but
\* the last.
RECURSIVE ByteCodeWrite(_)
ByteCodeWrite(value) ==
    IF value < 128 THEN <<value>>
    ELSE <<128 + (value % 128)>> \o ByteCodeWrite(value \div 128)

RECURSIVE ByteCodeReadFrom(_, _, _, _)
ByteCodeReadFrom(data, pos, scale, acc) ==
    LET byte == data[pos + 1]
    IN  IF byte >= 128
        THEN ByteCodeReadFrom(data, pos + 1, scale * 128, acc + (byte - 128) * scale)
        ELSE <<acc + byte * scale, pos + 1>>

ByteCodeRead(data, pos) == ByteCodeReadFrom(data, pos, 1, 0)

\* Run(sigma), sigma the outdegree: the number of lengths that fit in the first byte.
RUN_CONTINUES(degree) == 256 \div degree

RunWrite(degree, run) ==
    IF run[2] < RUN_CONTINUES(degree)
    THEN <<run[1] * RUN_CONTINUES(degree) + run[2]>>
    ELSE <<run[1] * RUN_CONTINUES(degree) + (RUN_CONTINUES(degree) - 1)>>
         \o ByteCodeWrite(run[2] - (RUN_CONTINUES(degree) - 1))

RunRead(degree, data, pos) ==
    LET byte == data[pos + 1]
        rank == byte \div RUN_CONTINUES(degree)
        short_len == byte % RUN_CONTINUES(degree)
    IN  IF short_len < RUN_CONTINUES(degree) - 1
        THEN <<(<<rank, short_len>>), pos + 1>>
        ELSE LET more == ByteCodeRead(data, pos + 1)
             IN  <<(<<rank, ToShort(RUN_CONTINUES(degree) - 1 + more[1])>>), more[2]>>

----------------------------------------------------------------------------
(* RecordArray::RecordArray(const std::vector<DynamicRecord>& bwt)          *)

\* The outgoing edges from edge k on: the gap to the previous successor,
\* then the offset.
RECURSIVE WriteOutgoing(_, _, _)
WriteOutgoing(outgoing, k, prev) ==
    IF k > Len(outgoing) THEN <<>>
    ELSE ByteCodeWrite(ToSize(outgoing[k][1] - prev))
         \o ByteCodeWrite(outgoing[k][2])
         \o WriteOutgoing(outgoing, k + 1, outgoing[k][1])

RECURSIVE WriteBody(_, _)
WriteBody(degree, body) ==
    IF body = <<>> THEN <<>>
    ELSE RunWrite(degree, body[1]) \o WriteBody(degree, Tail(body))

\* The bytes of one record.
WriteRecord(current) ==
    ByteCodeWrite(outdegree(current))
    \o WriteOutgoing(current.outgoing, 1, 0)
    \o (IF outdegree(current) > 0
        THEN WriteBody(outdegree(current), current.body) ELSE <<>>)

\* <<offsets, data>> after the records v[1..c].
RECURSIVE WriteRecords(_, _)
WriteRecords(v, c) ==
    IF c = 0 THEN <<{}, <<>>>>
    ELSE LET prev == WriteRecords(v, c - 1)
         IN  <<prev[1] \cup {Len(prev[2])}, prev[2] \o WriteRecord(v[c])>>

RecordArrayOf(v) ==
    LET done == WriteRecords(v, Len(v))
    IN  [records |-> Len(v),
         index |-> BitsOf(Len(done[2]), done[1]),
         data |-> done[2]]

----------------------------------------------------------------------------
(* CompressedRecord and its iterators.  body is the byte window that starts *)
(* after the outgoing edges, data_size bytes long.                          *)

\* The outgoing edges read from edge k on: <<outgoing, cursor>>.
RECURSIVE ReadOutgoing(_, _, _, _)
ReadOutgoing(source, start, left, prev) ==
    IF left = 0 THEN <<(<<>>), start>>
    ELSE LET first == ByteCodeRead(source, start)
             second == ByteCodeRead(source, first[2])
             node == ToShort(first[1] + prev)
             rest == ReadOutgoing(source, second[2], left - 1, node)
         IN  <<(<<(<<node, ToShort(second[1])>>)>>) \o rest[1], rest[2]>>

\* A decoder whose prefix sum of the gaps starts from 1; C16 tells it from
\* the constructor.
CompressedRecordOf_PrevOne(source, start, limit) ==
    LET degree == ByteCodeRead(source, start)
        edges == ReadOutgoing(source, degree[2], degree[1], 1)
    IN  [outgoing |-> edges[1],
         body |-> SubSeq(source, edges[2] + 1, limit),
         data_size |-> limit - edges[2]]

\* CompressedRecord::CompressedRecord(source, start, limit)
CompressedRecordOf(source, start, limit) ==
    LET degree == ByteCodeRead(source, start)
        edges == ReadOutgoing(source, degree[2], degree[1], 0)
    IN  [outgoing |-> edges[1],
         body |-> SubSeq(source, edges[2] + 1, limit),
         data_size |-> limit - edges[2]]

\* The record c of a RecordArray: the bytes from its start to the start of
\* the next record, or to the end of the data.
RecordAt(a, c) ==
    LET start == Select1(a.index, c + 1)
        limit == IF c + 1 < a.records THEN Select1(a.index, c + 2) ELSE Len(a.data)
    IN  CompressedRecordOf(a.data, start, limit)

\* The iterators.  An iterator is on the run it has read last: offset is
\* the body offset after that run, ranks the outgoing edges with the ranks
\* after that run (full iterator), and result the rank after that run for
\* the out-rank `value` (rank iterator).  At the end nothing is read and
\* the iterator keeps the last run.
IterEnd(c, it) == it.curr_offset >= c.data_size

IterRead(c, it) ==
    IF IterEnd(c, it) THEN it
    ELSE LET got == RunRead(outdegree(c), c.body, it.next_offset)
             run == got[1]
         IN  [it EXCEPT !.run = run,
                        !.next_offset = got[2],
                        !.record_offset = ToSize(@ + run[2]),
                        !.ranks = IF run[1] < Len(@)
                                  THEN [@ EXCEPT ![run[1] + 1][2] = ToShort(@ + run[2])]
                                  ELSE @,
                        !.result = IF run[1] = it.value THEN ToSize(@ + run[2]) ELSE @]

IterStart(c, outrank) ==
    IterRead(c, [curr_offset |-> 0, next_offset |-> 0, run |-> <<0, 0>>,
                 record_offset |-> 0, ranks |-> c.outgoing, value |-> outrank,
                 result |-> IF outrank < outdegree(c) THEN offset(c, outrank) ELSE 0])

IterNext(c, it) == IterRead(c, [it EXCEPT !.curr_offset = it.next_offset])

\* edge(): the successor of the current run with its running rank.
IterEdge(it) == it.ranks[it.run[1] + 1]

\* rankAt(i): the rank, less the overshoot if the current run has the
\* iterator's out-rank.
rankAt(it, i) ==
    IF it.run[1] = it.value THEN ToSize(it.result - (it.record_offset - i))
    ELSE it.result

\* CompressedRecord::LF(size_type i)
RECURSIVE CLFLoop(_, _, _)
CLFLoop(c, it, i) ==
    IF IterEnd(c, it) THEN invalid_edge
    ELSE IF it.record_offset > i
         THEN <<IterEdge(it)[1], ToShort(IterEdge(it)[2] - (it.record_offset - i))>>
         ELSE CLFLoop(c, IterNext(c, it), i)

CLF(c, i) ==
    IF outdegree(c) = 0 THEN invalid_edge ELSE CLFLoop(c, IterStart(c, 0), i)

\* while(!(iter.end()) && iter.offset() < bound) { ++iter; }
RECURSIVE IterSeek(_, _, _)
IterSeek(c, it, bound) ==
    IF ~IterEnd(c, it) /\ it.record_offset < bound
    THEN IterSeek(c, IterNext(c, it), bound)
    ELSE it

\* CompressedRecord::LF(size_type i, node_type to)
CLFto(c, i, to) ==
    LET outrank == edgeTo(c, to)
    IN  IF outrank >= outdegree(c) THEN invalid_offset
        ELSE rankAt(IterSeek(c, IterStart(c, outrank), i), i)

\* CompressedRecord::LF(range_type range, node_type to)
CLFrange(c, range, to) ==
    IF RangeEmpty(range) THEN empty_range
    ELSE LET outrank == edgeTo(c, to)
         IN  IF outrank >= outdegree(c) THEN empty_range
             ELSE LET it1 == IterSeek(c, IterStart(c, outrank), range[1])
                      it2 == IterSeek(c, it1, range[2])
                  IN  <<rankAt(it1, range[1]), rankAt(it2, range[2])>>

\* CompressedRecord::operator[](size_type i)
RECURSIVE CAtLoop(_, _, _)
CAtLoop(c, it, i) ==
    IF IterEnd(c, it) THEN ENDMARKER
    ELSE IF it.record_offset > i THEN successor(c, it.run[1])
         ELSE CAtLoop(c, IterNext(c, it), i)

CAt(c, i) ==
    IF outdegree(c) = 0 THEN ENDMARKER ELSE CAtLoop(c, IterStart(c, 0), i)

----------------------------------------------------------------------------
(* The compressed-record state machine: a RecordArray is built from two     *)
(* copies of a record with sorted outgoing edges, and the queries are made  *)
(* on the CompressedRecord of either copy.                                  *)

InitCompressed ==
    /\ \E d \in 0..MaxNode, n \in 0..MaxSize :
         \E out \in OutgoingSets(d), w \in RankStrings(d, n) :
            /\ OutgoingSorted(RecordOf(out, w))
            /\ rec = RecordOf(out, w)
    /\ bwt = <<rec, rec>>
    /\ array = EmptyArray
    /\ header = Idle
    /\ inserted = <<>>
    /\ das = <<>>
    /\ op = "none"
    /\ args = <<>>
    /\ res = <<>>

Built == array /= EmptyArray

Compress ==
    /\ Ready
    /\ ~Built
    /\ array' = RecordArrayOf(bwt)
    /\ op' = "RecordArray"
    /\ args' = <<>>
    /\ res' = <<>>
    /\ UNCHANGED <<header, bwt, inserted, rec, das>>

CallCLF(c, i) ==
    /\ Ready
    /\ Built
    /\ op' = "cLF"
    /\ args' = <<c, i>>
    /\ res' = CLF(RecordAt(array, c), i)
    /\ UNCHANGED <<header, bwt, inserted, rec, das, array>>

CallCLFto(c, i, to) ==
    /\ Ready
    /\ Built
    /\ op' = "cLFto"
    /\ args' = <<c, i, to>>
    /\ res' = CLFto(RecordAt(array, c), i, to)
    /\ UNCHANGED <<header, bwt, inserted, rec, das, array>>

CallCLFrange(c, range, to) ==
    /\ Ready
    /\ Built
    /\ op' = "cLFrange"
    /\ args' = <<c, range, to>>
    /\ res' = CLFrange(RecordAt(array, c), range, to)
    /\ UNCHANGED <<header, bwt, inserted, rec, das, array>>

CallCAt(c, i) ==
    /\ Ready
    /\ Built
    /\ op' = "cAt"
    /\ args' = <<c, i>>
    /\ res' = CAt(RecordAt(array, c), i)
    /\ UNCHANGED <<header, bwt, inserted, rec, das, array>>

Copies == 0..1

NextCompressed ==
    \/ Compress
    \/ \E c \in Copies, i \in Positions : CallCLF(c, i)
    \/ \E c \in Copies, i \in Positions, to \in Targets : CallCLFto(c, i, to)
    \/ \E c \in Copies, range \in Ranges, to \in Targets : CallCLFrange(c, range, to)
    \/ \E c \in Copies, i \in Positions : CallCAt(c, i)
    \/ Return

SpecCompressed == InitCompressed /\ [][NextCompressed]_vars

----------------------------------------------------------------------------
(* The encoding of record vectors and the decoding of their records.  The   *)
(* offsets of the edges include the largest value of short_type.            *)

EncodedOutgoing(d) ==
    {out \in [1..d -> Nodes \X {0, MaxOffset, ShortMod - 1}] :
        \A k \in 1..(d - 1) : out[k][1] < out[k + 1][1]}

\* One record, two copies of it, or the record after an empty record.
InitEncode ==
    /\ \E d \in 0..MaxNode, n \in 0..MaxSize, shape \in 1..3 :
         \E out \in EncodedOutgoing(d), w \in RankStrings(d, n) :
            bwt = CASE shape = 1 -> <<RecordOf(out, w)>>
                    [] shape = 2 -> <<RecordOf(out, w), RecordOf(out, w)>>
                    [] OTHER -> <<EmptyRecord, RecordOf(out, w)>>
    /\ rec = EmptyRecord
    /\ array = EmptyArray
    /\ header = Idle
    /\ inserted = <<>>
    /\ das = <<>>
    /\ op = "none"
    /\ args = <<>>
    /\ res = <<>>

BuildArray ==
    /\ op = "none"
    /\ array' = RecordArrayOf(bwt)
    /\ op' = "RecordArray"
    /\ UNCHANGED <<header, bwt, inserted, rec, das, args, res>>

\* The record c, decoded from its start offset.
Decode(c) ==
    /\ op = "RecordArray"
    /\ c < array.records
    /\ op' = "record"
    /\ args' = <<c>>
    /\ res' = RecordAt(array, c)
    /\ UNCHANGED <<header, bwt, inserted, rec, das, array>>

NextEncode ==
    \/ BuildArray
    \/ \E c \in 0..(MaxRecords - 1) : Decode(c)

SpecEncode == InitEncode /\ [][NextEncode]_vars

----------------------------------------------------------------------------
(* serialize and load of RecordArray and DASamples.  The stream is the      *)
(* sequence of the words written, in the order of the writes, without any    *)
(* mark between the components: a bit vector is its length and then its     *)
(* bits, the packed array its length in bits, its width and its elements,   *)
(* the data bytes are written raw, and a rank or select support writes       *)
(* nothing and is bound to its vector again by load.  A cursor is the        *)
(* number of words read so far; a read gives <<value, cursor after it>>.     *)

WriteBits(b) == <<Len(b)>> \o b

ReadBits(in, pos) ==
    LET n == in[pos + 1]
    IN  <<SubSeq(in, pos + 2, pos + 1 + n), pos + 1 + n>>

ReadRaw(in, pos, n) == <<SubSeq(in, pos + 1, pos + n), pos + n>>

WriteInts(a, width) == <<Len(a) * width, width>> \o a

\* <<elements, cursor, width>>
ReadInts(in, pos) ==
    LET width == in[pos + 2]
        n == in[pos + 1] \div width
    IN  <<SubSeq(in, pos + 3, pos + 2 + n), pos + 2 + n, width>>

\* RecordArray::serialize: records, index, select, data.
RecordArraySerialize(a) == <<a.records>> \o WriteBits(a.index) \o a.data

\* A load that sizes data by the number of records.
RecordArrayLoad_DataByRecords(in) ==
    LET idx == ReadBits(in, 1)
        bytes == ReadRaw(in, idx[2], in[1])
    IN  [records |-> in[1], index |-> idx[1], data |-> bytes[1]]

\* RecordArray::load: data is resized to index.size() and read raw.
RecordArrayLoad(in) ==
    LET idx == ReadBits(in, 1)
        bytes == ReadRaw(in, idx[2], Len(idx[1]))
    IN  [records |-> in[1], index |-> idx[1], data |-> bytes[1]]

\* DASamples::serialize: sampled_records, bwt_ranges, sampled_offsets, array,
\* each vector followed by its support.
DASamplesSerialize(d) ==
    WriteBits(d.sampled_records) \o WriteBits(d.bwt_ranges)
        \o WriteBits(d.sampled_offsets) \o WriteInts(d.array, d.width)

\* DASamples::load
DASamplesLoad(in) ==
    LET records == ReadBits(in, 0)
        ranges == ReadBits(in, records[2])
        offsets == ReadBits(in, ranges[2])
        ids == ReadInts(in, offsets[2])
    IN  [sampled_records |-> records[1], bwt_ranges |-> ranges[1],
         sampled_offsets |-> offsets[1], array |-> ids[1], width |-> ids[3]]

\* The record vectors: the vectors DASamples is built from, and the vectors
\* of one or two copies of a record with sorted outgoing edges.
InitSerialize ==
    /\ \/ \E len \in 0..MaxRecords, flip \in 0..1 :
            \E sizes \in [1..len -> 0..MaxSampled] :
              \E marks \in [1..len -> SUBSET (0..(MaxSampled - 1))] :
                /\ \A c \in 1..len : marks[c] \subseteq 0..(sizes[c] - 1)
                /\ bwt = SampleVector(sizes, marks, flip)
       \/ \E d \in 0..MaxNode, n \in 0..MaxSize, copies \in 1..2 :
            \E out \in OutgoingSets(d), w \in RankStrings(d, n) :
                /\ OutgoingSorted(RecordOf(out, w))
                /\ bwt = [c \in 1..copies |-> RecordOf(out, w)]
    /\ rec = EmptyRecord
    /\ das = EmptyDAS
    /\ array = EmptyArray
    /\ header = Idle
    /\ inserted = <<>>
    /\ op = "none"
    /\ args = <<>>
    /\ res = <<>>

\* The two structures are built from the vector.
Build ==
    /\ op = "none"
    /\ array' = RecordArrayOf(bwt)
    /\ das' = DASamplesOf(bwt)
    /\ op' = "built"
    /\ UNCHANGED <<header, bwt, inserted, rec, args, res>>

\* args keeps the structures that have been loaded; res is the stream.
Loaded(name) == \E k \in 1..Len(args) : args[k] = name

Writable == op \in {"built", "RecordArray::load", "DASamples::load"}

SerializeArray ==
    /\ Writable
    /\ ~Loaded("RecordArray")
    /\ res' = RecordArraySerialize(array)
    /\ op' = "RecordArray::serialize"
    /\ UNCHANGED <<header, bwt, inserted, rec, das, array, args>>

LoadArray ==
    /\ op = "RecordArray::serialize"
    /\ array' = RecordArrayLoad(res)
    /\ op' = "RecordArray::load"
    /\ args' = Append(args, "RecordArray")
    /\ res' = <<>>
    /\ UNCHANGED <<header, bwt, inserted, rec, das>>

SerializeSamples ==
    /\ Writable
    /\ ~Loaded("DASamples")
    /\ res' = DASamplesSerialize(das)
    /\ op' = "DASamples::serialize"
    /\ UNCHANGED <<header, bwt, inserted, rec, das, array, args>>

LoadSamples ==
    /\ op = "DASamples::serialize"
    /\ das' = DASamplesLoad(res)
    /\ op' = "DASamples::load"
    /\ args' = Append(args, "DASamples")
    /\ res' = <<>>
    /\ UNCHANGED <<header, bwt, inserted, rec, array>>

NextSerialize ==
    \/ Build
    \/ SerializeArray
    \/ LoadArray
    \/ SerializeSamples
    \/ LoadSamples

SpecSerialize == InitSerialize /\ [][NextSerialize]_vars

----------------------------------------------------------------------------
(* Reference values for the record-level claims, stated on the body taken   *)
(* position by position.                                                    *)

\* The out-ranks of the body's positions, in order: run (r, n) is n times r.
RECURSIVE Expand(_)
Expand(body) ==
    IF body = <<>> THEN <<>>
    ELSE [j \in 1..body[1][2] |-> body[1][1]] \o Expand(Tail(body))

\* The out-rank of body position i (0-based).
RankOf(r, i) == Expand(r.body)[i + 1]

\* The number of body positions j < i whose out-rank is outrank.
CountBefore(r, i, outrank) ==
    Cardinality({j \in 1..Len(Expand(r.body)) : j <= i /\ Expand(r.body)[j] = outrank})

IsSuccessor(r, to) == \E k \in 1..outdegree(r) : r.outgoing[k][1] = to

RankTo(r, to) == CHOOSE k \in 0..(outdegree(r) - 1) : successor(r, k) = to

\* C2: on a record whose run lengths sum to size(), LF(i) for i < size() is
\* (successor(r), offset(r) + the number of positions j < i with out-rank r)
\* for r the out-rank of position i, and it is (record[i], LF(i, record[i])).
C2_LFPosition ==
    (op = "LF" /\ SumRuns(rec.body) = size(rec) /\ args[1] < size(rec)) =>
        LET i == args[1]
            r == RankOf(rec, i)
        IN  /\ res = <<successor(rec, r), offset(rec, r) + CountBefore(rec, i, r)>>
            /\ res = <<At(rec, i), LFto(rec, i, At(rec, i))>>

\* An LF(i) call inside a run that is neither the first run nor at its start.
C2_Witness ==
    /\ op = "LF"
    /\ args[1] < size(rec)
    /\ Len(rec.body) >= 2
    /\ RankOf(rec, args[1]) = rec.body[2][1]
    /\ CountBefore(rec, args[1], RankOf(rec, args[1])) >= 1
    /\ res[2] = offset(rec, RankOf(rec, args[1])) + CountBefore(rec, args[1], RankOf(rec, args[1]))

\* C3: for a non-empty range [sp, ep] with ep < size() and a successor `to`,
\* LF([sp, ep], to) is the closed range holding exactly the values LF(i, to)
\* of the positions i in [sp, ep] whose successor is `to`; it is an empty
\* range when there is no such position.
C3_Hits(r, range, to) ==
    {offset(r, RankTo(r, to)) + CountBefore(r, i, RankTo(r, to)) :
        i \in {j \in range[1]..range[2] : RankOf(r, j) = RankTo(r, to)}}

C3_RangeMapping ==
    (/\ op = "LFrange"
     /\ args[1][1] <= args[1][2]
     /\ args[1][2] < size(rec)
     /\ IsSuccessor(rec, args[2])) =>
        LET hits == C3_Hits(rec, args[1], args[2])
        IN  /\ hits = {} => RangeEmpty(res)
            /\ hits /= {} => (~RangeEmpty(res) /\ res[1]..res[2] = hits)
            /\ RangeLength(res) = Cardinality(hits)

\* C4: for i in [0, size()], LF(i, to) is offset(r) + the number of positions
\* j < i with out-rank r when `to` is the successor of out-rank r, and
\* invalid_offset() when `to` is not a successor.
C4_LFTarget ==
    (op = "LFto" /\ args[1] <= size(rec)) =>
        LET i == args[1]
            to == args[2]
        IN  IF IsSuccessor(rec, to)
            THEN res = offset(rec, RankTo(rec, to)) + CountBefore(rec, i, RankTo(rec, to))
            ELSE res = invalid_offset

\* An LF(i, to) call that counts part of a run of `to` and skips another run.
C4_Witness ==
    /\ op = "LFto"
    /\ args[1] <= size(rec)
    /\ IsSuccessor(rec, args[2])
    /\ res > offset(rec, RankTo(rec, args[2]))
    /\ res < offset(rec, RankTo(rec, args[2])) + args[1]
    /\ res /= invalid_offset

C10_ContainsSafe ==
    (op = "contains" /\ header.offset <= header.alphabet_size) =>
        LET n == args[1]
        IN  /\ res = (n = 0 \/ (header.offset < n /\ n < header.alphabet_size))
            /\ res => toComp(header, n) < effective(header)
            /\ res => \A m \in NodeIds :
                        (contains(header, m) /\ m /= n) =>
                            toComp(header, m) /= toComp(header, n)

\* The sample record rid of bwt stores at offset off, if any.
StoresSample(v, rid, off) ==
    \E k \in 1..Len(v[rid + 1].ids) : v[rid + 1].ids[k][1] = off

StoredId(v, rid, off) ==
    LET k == CHOOSE k \in 1..Len(v[rid + 1].ids) : v[rid + 1].ids[k][1] = off
    IN  v[rid + 1].ids[k][2]

\* C7: on a DASamples built from records whose samples are sorted by strictly
\* increasing offset below the record size, tryLocate(r, offset) returns the
\* id of the sample (offset, id) stored in record r.
C7_LocateSampled ==
    (op = "tryLocate" /\ StoresSample(bwt, args[1], args[2])) =>
        res = StoredId(bwt, args[1], args[2])

\* A sample found in a record that follows another sampled record, at an
\* offset other than the record's first.
C7_Witness ==
    /\ op = "tryLocate"
    /\ args[1] >= 1
    /\ args[2] >= 1
    /\ samples(bwt[1]) > 0
    /\ StoresSample(bwt, args[1], args[2])
    /\ res = StoredId(bwt, args[1], args[2])

\* C8: tryLocate(r, i) returns invalid_sequence() whenever record r stores no
\* sample at offset i, records without samples and offsets at or beyond the
\* record's size included.
C8_LocateUnsampled ==
    (op = "tryLocate" /\ ~StoresSample(bwt, args[1], args[2])) =>
        res = invalid_sequence

RECURSIVE SumSizes(_)
SumSizes(v) == IF v = <<>> THEN 0 ELSE size(v[1]) + SumSizes(Tail(v))

RECURSIVE SumLengths(_)
SumLengths(paths) ==
    IF paths = <<>> THEN 0 ELSE Len(paths[1]) + 1 + SumLengths(Tail(paths))

\* C1: the paths are numbered in insertion order, and for every j below
\* sequences() following LF from (ENDMARKER, j) until the endmarker is
\* reached again gives the nodes of the j-th inserted path.
C1_PathsInOrder ==
    /\ sequences(Index) = Len(inserted)
    /\ \A j \in 0..(Len(inserted) - 1) : extract(Index, j) = inserted[j + 1]

\* Two paths that share their first node and part ways after it, the one
\* inserted second going to the smaller node.
C1_Witness ==
    /\ Len(inserted) = 2
    /\ Len(inserted[1]) = 2
    /\ Len(inserted[2]) = 2
    /\ inserted[1][1] = inserted[2][1]
    /\ inserted[2][2] < inserted[1][2]
    /\ extract(Index, 1) = inserted[2]

\* C9: size() is the sum of the sizes of the records, which is the total
\* length of the inserted paths with one endmarker for each.
C9_SizeIdentity ==
    /\ IndexSize(Index) = SumSizes(bwt)
    /\ IndexSize(Index) = SumLengths(inserted)

\* An index of two paths in more than one record, the last call a merge in
\* batches of one path.
C9_Witness ==
    /\ op = "merge"
    /\ args[1] = 1
    /\ Len(inserted) = 2
    /\ Len(bwt) >= 3
    /\ IndexSize(Index) = SumSizes(bwt)
    /\ IndexSize(Index) >= 4

\* C6: for a DynamicRecord d with sorted outgoing edges and the
\* CompressedRecord c decoded from its RecordArray encoding, c.LF(i) = d.LF(i),
\* c.LF(i, to) = d.LF(i, to), c.LF(range, to) = d.LF(range, to) and
\* c[i] = d[i] for every i, every range and every node `to`.
C6_QueriesAgree ==
    /\ op = "cLF" => res = LF(rec, args[2])
    /\ op = "cLFto" => res = LFto(rec, args[2], args[3])
    /\ op = "cLFrange" => res = LFrange(rec, args[2], args[3])
    /\ op = "cAt" => res = At(rec, args[2])

\* What an index answers: sequences(), count(node) and the LF queries of
\* every node it contains, at every position up to the record's size.
Answers(x) ==
    LET nodes == {n \in 0..sigma(x.header) : contains(x.header, n) /\ effective(x.header) > 0}
    IN  [seqs |-> sequences(x),
         counts |-> [n \in nodes |-> count(x, n)],
         lf |-> [n \in nodes |-> [i \in 0..count(x, n) |-> IndexLF(x, n, i)]],
         lfto |-> [n \in nodes |->
                     [i \in 0..count(x, n) |->
                        [to \in 0..sigma(x.header) |-> LFto(record(x, n), i, to)]]],
         lfrange |-> [n \in nodes |->
                        [range \in {q \in (0..count(x, n)) \X (0..count(x, n)) : q[1] <= q[2]} |->
                           [to \in 0..sigma(x.header) |->
                              IF count(x, n) = 0 THEN empty_range
                              ELSE LFrange(record(x, n), range, to)]]]]

C12_RoundTrip ==
    /\ Loaded("RecordArray") =>
          /\ array = RecordArrayOf(bwt)
          /\ Len(array.data) = Len(array.index)
          /\ \A c \in 0..(Len(bwt) - 1) :
                RecordAt(array, c) = RecordAt(RecordArrayOf(bwt), c)
    /\ Loaded("DASamples") =>
          /\ das = DASamplesOf(bwt)
          /\ \A rid \in 0..(Len(bwt) - 1), off \in 0..(MaxSampled + 1) :
                tryLocate(das, rid, off) = tryLocate(DASamplesOf(bwt), rid, off)

\* Both structures have been loaded, from a vector of two records with a
\* sample in the second one.
C12_Witness ==
    /\ Loaded("RecordArray")
    /\ Loaded("DASamples")
    /\ array.records = 2
    /\ Len(array.data) > 2
    /\ Len(das.array) > 0
    /\ das.sampled_records[2] = 1

\* C13: invalid_offset() and invalid_sequence() are the all-ones value of
\* size_type, and invalid_edge() is (ENDMARKER, invalid_offset()): its second
\* component, widened to size_type, equals invalid_offset(), also when it is
\* what LF(i) returns past the end of a record.
C13_SentinelValues ==
    /\ invalid_offset = SizeMod - 1
    /\ invalid_sequence = SizeMod - 1
    /\ invalid_edge[1] = ENDMARKER
    /\ ToSize(invalid_edge[2]) = invalid_offset
    /\ (op = "LF" /\ args[1] >= size(rec)) => ToSize(res[2]) = invalid_offset

\* C14: recode() on a non-empty record with pairwise distinct successors and
\* body out-ranks below outdegree() leaves record[i], LF(i) and LF(i, to) for
\* every i and to, size() and the run lengths in order as they were, and
\* body_size, incoming and ids unchanged.
C14_RecodeKeepsAnswers ==
    (op = "recode" /\ size(args[1]) > 0) =>
        LET before == args[1]
        IN  /\ \A i \in Positions :
                /\ At(rec, i) = At(before, i)
                /\ LF(rec, i) = LF(before, i)
                /\ \A to \in 0..(MaxNode + 1) : LFto(rec, i, to) = LFto(before, i, to)
            /\ size(rec) = size(before)
            /\ [k \in 1..runs(rec) |-> rec.body[k][2]]
                  = [k \in 1..runs(before) |-> before.body[k][2]]
            /\ rec.body_size = before.body_size
            /\ rec.incoming = before.incoming
            /\ rec.ids = before.ids

\* recode() has reordered the edges of a record with an incoming edge and a
\* sample, and has given a run another out-rank.
C14_Witness ==
    /\ op = "recode"
    /\ Len(args) = 1
    /\ args[1].outgoing /= rec.outgoing
    /\ \E k \in 1..runs(rec) : rec.body[k][1] /= args[1].body[k][1]
    /\ runs(rec) >= 2
    /\ rec.incoming /= <<>>
    /\ rec.ids /= <<>>

\* C15: after recode() on a non-empty record with pairwise distinct
\* successors, the successors in outgoing are strictly increasing, every
\* out-rank in body is below outdegree(), and a second recode() changes
\* nothing.
C15_RecodeSorts ==
    (op = "recode" /\ size(args[1]) > 0) =>
        /\ \A k \in 1..(outdegree(rec) - 1) : successor(rec, k - 1) < successor(rec, k)
        /\ \A k \in 1..runs(rec) : rec.body[k][1] < outdegree(rec)
        /\ Len(args) = 2 => rec = args[2]

\* The second recode() of a record whose edges the first one has reordered.
C15_Witness ==
    /\ op = "recode"
    /\ Len(args) = 2
    /\ args[1] /= args[2]
    /\ outdegree(rec) >= 2
    /\ rec = args[2]

\* C16: in the RecordArray of a vector of records with strictly increasing
\* successors the recorded offsets are as many as the records, strictly
\* increasing from 0, and record c decoded from its offset has the outdegree
\* and the (successor, offset) pair at every out-rank of bwt[c], its body
\* being the bytes right after the outgoing edges.
C16_EdgesRoundTrip ==
    /\ op \in {"RecordArray", "record"} =>
          /\ Cardinality({j \in 1..Len(array.index) : array.index[j] = 1}) = Len(bwt)
          /\ Len(bwt) > 0 => Select1(array.index, 1) = 0
    /\ op = "record" =>
          LET current == bwt[args[1] + 1]
          IN  /\ outdegree(res) = outdegree(current)
              /\ \A outrank \in 0..(outdegree(current) - 1) :
                    /\ successor(res, outrank) = successor(current, outrank)
                    /\ offset(res, outrank) = offset(current, outrank)
              /\ res.body = IF outdegree(current) > 0
                            THEN WriteBody(outdegree(current), current.body) ELSE <<>>
              /\ res.data_size = Len(res.body)

\* The second record of a vector is decoded: two edges, the first successor
\* not 0, and an offset that takes two bytes.
C16_Witness ==
    /\ op = "record"
    /\ args[1] = 1
    /\ outdegree(res) = 2
    /\ successor(res, 0) > 0
    /\ \E outrank \in 0..1 : offset(res, outrank) >= 128
    /\ Len(res.body) >= 2

Popcount(b) == Cardinality({j \in 1..Len(b) : b[j] = 1})

RECURSIVE SampledSizes(_)
SampledSizes(v) ==
    IF v = <<>> THEN 0
    ELSE (IF samples(v[1]) > 0 THEN size(v[1]) ELSE 0) + SampledSizes(Tail(v))

RECURSIVE SampleCount(_)
SampleCount(v) == IF v = <<>> THEN 0 ELSE samples(v[1]) + SampleCount(Tail(v))

RECURSIVE SampleIds(_)
SampleIds(v) ==
    IF v = <<>> THEN <<>>
    ELSE [k \in 1..samples(v[1]) |-> v[1].ids[k][2]] \o SampleIds(Tail(v))

\* C17: in the DASamples built from a vector, sampled_offsets has as many
\* set bits as array has elements and as the records have samples,
\* bwt_ranges has as many set bits as sampled_records, both have the length
\* of the sum of the sizes of the sampled records, and every id is stored
\* whole within the width of array.
C17_SampleCounts ==
    das /= EmptyDAS =>
        /\ Popcount(das.sampled_offsets) = Len(das.array)
        /\ Len(das.array) = SampleCount(bwt)
        /\ Popcount(das.bwt_ranges) = Popcount(das.sampled_records)
        /\ Len(das.bwt_ranges) = SampledSizes(bwt)
        /\ Len(das.sampled_offsets) = SampledSizes(bwt)
        /\ \A k \in 1..Len(das.array) :
              /\ das.array[k] < Pow2(das.width)
              /\ das.array[k] = SampleIds(bwt)[k]

\* Two sampled records with three samples between them, built, the largest
\* id taking the whole width.
C17_Witness ==
    /\ op = "DASamples"
    /\ Popcount(das.sampled_records) = 2
    /\ Len(das.array) = 3
    /\ \E k \in 1..3 : das.array[k] >= Pow2(das.width - 1)
    /\ das.width >= 2

RECURSIVE SumCounts(_)
SumCounts(pairs) == IF pairs = <<>> THEN 0 ELSE pairs[1][2] + SumCounts(Tail(pairs))

Calls(from) == Cardinality({j \in 1..Len(args) : args[j] = from})

\* C18: after any sequence of increment(from) calls on a record that was
\* empty, incoming is sorted by strictly increasing predecessor, the count
\* of each predecessor is the number of calls made with it, the counts sum
\* to the number of calls, and outgoing, body and ids are as they were.
C18_IncrementCounts ==
    /\ \A k \in 1..(indegree(rec) - 1) : rec.incoming[k][1] < rec.incoming[k + 1][1]
    /\ \A k \in 1..indegree(rec) : rec.incoming[k][2] = Calls(rec.incoming[k][1])
    /\ \A from \in Nodes :
          Calls(from) > 0 => \E k \in 1..indegree(rec) : rec.incoming[k][1] = from
    /\ SumCounts(rec.incoming) = Len(args)
    /\ rec.outgoing = <<>> /\ rec.body = <<>> /\ rec.ids = <<>>

\* A larger predecessor was incremented before a smaller one, and one of
\* them twice.
C18_Witness ==
    /\ op = "increment"
    /\ Len(args) >= 3
    /\ args[1] > args[2]
    /\ indegree(rec) = 2
    /\ \E k \in 1..2 : rec.incoming[k][2] >= 2

\* C19: Range::empty(range) is true for every range with first > second and
\* for [0, -1], the range whose second is the largest value, and false for
\* every other range; Range::empty(empty_range()) is true, and Range::length
\* of empty_range() and of [0, -1] is 0.
C19_RangeEmptiness ==
    /\ op = "Range::empty" =>
          (res <=> (args[1][1] > args[1][2] \/ args[1] = <<0, SizeMod - 1>>))
    /\ (op = "Range::empty" /\ args[1] = empty_range) => res
    /\ (op = "Range::length" /\ args[1] \in {empty_range, <<0, SizeMod - 1>>}) => res = 0

====
